---- MODULE Spec2Model ----
(***************************************************************************)
(* A model of driftpy's ClearingHouse client (src/driftpy/clearing_house.py)*)
(* as a state machine: the client object (program handle + cached address  *)
(* bundle), the remote ledger it reads, and a set of callers each running  *)
(* one coroutine of the client at a time.  Code between two awaits runs    *)
(* atomically (asyncio); every await on the transport is a point where     *)
(* other callers and the remote ledger may move.                           *)
(***************************************************************************)
EXTENDS Naturals, Sequences, FiniteSets, TLC

\* How many distinct contents the remote State account takes over time.
NumVersions == 2

\* How many distinct keypairs Keypair() can come up with.
NumKeypairs == 2

\* The callers that use the same client concurrently.  They share nothing
\* but the client object, so two callers show every interleaving of a pair
\* of in-flight calls.
Tasks == {"caller1", "caller2"}

\* ------------------------------------------------------------------------
\* Values the callers and the environment draw from.

ProgramIds == {"programA", "programB"}
Identities == {"alice"}
KeypairSeeds == 1..NumKeypairs
Amounts == {1000}
CollateralAccounts == {"X"}
PositionsAccounts == {"P"}
StateVersions == 1..NumVersions
Signatures == {"sig1"}
SubmissionErrors == {"SimulationFailure", "InsufficientFunds"}

\* ------------------------------------------------------------------------
\* Addresses.  Every address is a record with a tag; two addresses are the
\* same address exactly when the records are equal.

SYS_PROGRAM_ID == [tag |-> "const", of |-> "SystemProgram"]
SYSVAR_RENT_PUBKEY == [tag |-> "const", of |-> "SysvarRent"]
TOKEN_PROGRAM_ID == [tag |-> "const", of |-> "TokenProgram"]

\* The signing identity's public key.
WalletPublicKey(id) == [tag |-> "wallet", of |-> id]

\* Keypair(): a keypair and its public key.
Keypair(seed) == [secret |-> seed, public_key |-> [tag |-> "key", of |-> seed]]

\* The caller's token account (an input of the deposit path).
TokenAccount(a) == [tag |-> "token_account", of |-> a]

\* An existing positions account a caller may name in the deposit path.
PositionsAccount(a) == [tag |-> "positions_account", of |-> a]

\* PublicKey.find_program_address(seeds, program_id): the platform's
\* derivation, a deterministic injective function of its inputs; the bump
\* nonce is part of the output.
find_program_address(seeds, program_id) ==
    << [tag |-> "pda", seeds |-> seeds, program_id |-> program_id],
       [bump |-> seeds, program_id |-> program_id] >>

get_clearing_house_state_account_public_key_and_nonce(program_id) ==
    find_program_address(<<"clearing_house">>, program_id)

\* driftpy.addresses.get_user_account_public_key_and_nonce: seed is a
\* user-scoped tag plus the authority's public key bytes.
get_user_account_public_key_and_nonce(program_id, authority) ==
    find_program_address(<<"user", authority.of>>, program_id)

\* ------------------------------------------------------------------------
\* The remote State account: a record of addresses.  Each version carries
\* its own sentinel address per field.

Sentinel(field, v) == [tag |-> "sentinel", of |-> field, version |-> v]

StateAccount(v) ==
    [ collateral_vault |-> Sentinel("collateral_vault", v),
      markets |-> Sentinel("markets", v),
      trade_history |-> Sentinel("trade_history", v),
      deposit_history |-> Sentinel("deposit_history", v),
      funding_payment_history |-> Sentinel("funding_payment_history", v),
      funding_rate_history |-> Sentinel("funding_rate_history", v),
      liquidation_history |-> Sentinel("liquidation_history", v),
      curve_history |-> Sentinel("curve_history", v) ]

\* What the ledger may hold at the state address.
RemoteStates ==
    {[status |-> "missing"], [status |-> "undecodable"]}
        \cup {[status |-> "present", account |-> StateAccount(v)] : v \in StateVersions}

Ok(payload) == [ok |-> TRUE, payload |-> payload]
Err(error) == [ok |-> FALSE, error |-> error]

VARIABLES
    program,      \* the ProgramHandle: program id and provider wallet
    remoteState,  \* what the ledger holds at the state address
    client,       \* the ClearingHouse object, once constructed
    creation,     \* the create() coroutine
    task          \* per caller: the coroutine it runs on the client

vars == <<program, remoteState, client, creation, task>>

\* ------------------------------------------------------------------------
\* The transport.

\* program.account[kind].fetch(address): the answers the transport can give
\* now.  The State account lives at the state address of the program and is
\* decoded from what the ledger holds; any other account is either served
\* (decoded payload of that kind at that address) or reported missing.
FetchResponses(kind, address) ==
    IF kind = "State"
    THEN IF address # get_clearing_house_state_account_public_key_and_nonce(program.program_id)[1]
         THEN {Err("AccountDoesNotExistError")}
         ELSE CASE remoteState.status = "missing" -> {Err("AccountDoesNotExistError")}
                [] remoteState.status = "undecodable" -> {Err("AccountDidNotDeserializeError")}
                [] OTHER -> {Ok(remoteState.account)}
    ELSE {Ok([kind |-> kind, address |-> address]), Err("AccountDoesNotExistError")}

\* program.provider.send(tx, signers): accepted with a signature, or rejected.
SendResponses ==
    {[ok |-> TRUE, signature |-> s] : s \in Signatures}
        \cup {Err(e) : e \in SubmissionErrors}

\* ------------------------------------------------------------------------
\* Coroutine records.

NoArgs == [n |-> "none"]
NoLocals == [n |-> "none"]
NoResult == [status |-> "none"]
Returned(value) == [status |-> "ok", value |-> value]
Raised(error) == [status |-> "error", error |-> error]

Idle ==
    [op |-> "none", pc |-> "idle", args |-> NoArgs, fetches |-> <<>>,
     sends |-> <<>>, locals |-> NoLocals, result |-> NoResult]

\* A coroutine that has just been called.
Call(op, args) == [Idle EXCEPT !.op = op, !.args = args, !.pc = "running"]

Pending == [pending |-> TRUE]

\* program.account[kind].fetch(address) is issued and awaited.
AwaitFetch(co, kind, address) ==
    [co EXCEPT !.pc = "fetch",
               !.fetches = Append(@, [kind |-> kind, address |-> address,
                                      response |-> Pending])]

LastFetch(co) == co.fetches[Len(co.fetches)]

\* The transport answers the fetch the coroutine awaits.
FetchAnswered(co, r) == [co EXCEPT !.fetches[Len(co.fetches)].response = r]

\* The coroutine returns or raises; its frame is gone.
Finish(co, result) ==
    [co EXCEPT !.pc = "done", !.result = result, !.locals = NoLocals]

NoClient == [exists |-> FALSE]

\* _get_state_account(program, state_pubkey): one fetch of the State account.
_get_state_account(co, state_pubkey) == AwaitFetch(co, "State", state_pubkey)

\* ------------------------------------------------------------------------
\* Construction.

_get_state_pubkey(p) ==
    find_program_address(<<"clearing_house">>, p.program_id)[1]

\* A bundle with two of the history addresses filed under each other's name.
ClearingHousePDAs_swapped(state_pubkey, state) ==
    [ state |-> state_pubkey,
      markets |-> state.markets,
      trade_history |-> state.deposit_history,
      deposit_history |-> state.trade_history,
      funding_payment_history |-> state.funding_payment_history,
      funding_rate_history |-> state.funding_rate_history,
      liquidation_history |-> state.liquidation_history,
      curve_history |-> state.curve_history ]

ClearingHousePDAs(state_pubkey, state) ==
    [ state |-> state_pubkey,
      markets |-> state.markets,
      trade_history |-> state.trade_history,
      deposit_history |-> state.deposit_history,
      funding_payment_history |-> state.funding_payment_history,
      funding_rate_history |-> state.funding_rate_history,
      liquidation_history |-> state.liquidation_history,
      curve_history |-> state.curve_history ]

\* ClearingHouse.__init__
ClearingHouse(p, pdas) == [exists |-> TRUE, program |-> p, pdas |-> pdas]

\* create(): derive the state address and await the fetch of the State account.
create ==
    /\ ~client.exists
    /\ creation.pc \in {"idle", "done"}
    /\ creation' = _get_state_account(Call("create", [program |-> program]),
                                      _get_state_pubkey(program))
    /\ UNCHANGED <<program, remoteState, client, task>>

\* A create() that fetches the State account a second time when the first
\* fetch fails.
create_resume_retry ==
    /\ creation.pc = "fetch"
    /\ \E r \in FetchResponses(LastFetch(creation).kind, LastFetch(creation).address) :
        IF r.ok
        THEN LET c == ClearingHouse(creation.args.program,
                                    ClearingHousePDAs(LastFetch(creation).address, r.payload))
             IN /\ client' = c
                /\ creation' = Finish(FetchAnswered(creation, r), Returned(c))
        ELSE /\ client' = client
             /\ creation' =
                    IF Len(creation.fetches) < 2
                    THEN _get_state_account(FetchAnswered(creation, r),
                                            LastFetch(creation).address)
                    ELSE Finish(FetchAnswered(creation, r), Raised(r.error))
    /\ UNCHANGED <<program, remoteState, task>>

\* create() resumes with the transport's answer.
create_resume ==
    /\ creation.pc = "fetch"
    /\ \E r \in FetchResponses(LastFetch(creation).kind, LastFetch(creation).address) :
        IF r.ok
        THEN LET c == ClearingHouse(creation.args.program,
                                    ClearingHousePDAs(LastFetch(creation).address, r.payload))
             IN /\ client' = c
                /\ creation' = Finish(FetchAnswered(creation, r), Returned(c))
        ELSE /\ client' = client
             /\ creation' = Finish(FetchAnswered(creation, r), Raised(r.error))
    /\ UNCHANGED <<program, remoteState, task>>

\* ------------------------------------------------------------------------
\* The ledger: the State account is created, rewritten or removed by others.
RemoteStateChange ==
    /\ \E s \in RemoteStates : s # remoteState /\ remoteState' = s
    /\ UNCHANGED <<program, client, creation, task>>

\* ------------------------------------------------------------------------
\* Calls on the constructed client.  A caller runs one coroutine at a time
\* and may start the next one when the previous has returned or raised.

CanCall(t) == client.exists /\ task[t].pc \in {"idle", "done"}

Start(t, co) ==
    /\ task' = [task EXCEPT ![t] = co]
    /\ UNCHANGED <<program, remoteState, client, creation>>

\* ------------------------------------------------------------------------
\* Read accessors: one fetch of the cached address, awaited.

get_state_account(t) ==
    /\ CanCall(t)
    /\ Start(t, _get_state_account(Call("get_state_account", NoArgs), client.pdas.state))

get_markets_account(t) ==
    /\ CanCall(t)
    /\ Start(t, AwaitFetch(Call("get_markets_account", NoArgs),
                           "Markets", client.pdas.markets))

get_funding_payment_history_account(t) ==
    /\ CanCall(t)
    /\ Start(t, AwaitFetch(Call("get_funding_payment_history_account", NoArgs),
                           "FundingPaymentHistory", client.pdas.funding_payment_history))

get_funding_rate_history_account(t) ==
    /\ CanCall(t)
    /\ Start(t, AwaitFetch(Call("get_funding_rate_history_account", NoArgs),
                           "FundingRateHistory", client.pdas.funding_rate_history))

get_trade_history_account(t) ==
    /\ CanCall(t)
    /\ Start(t, AwaitFetch(Call("get_trade_history_account", NoArgs),
                           "TradeHistory", client.pdas.trade_history))

get_liquidation_history_account(t) ==
    /\ CanCall(t)
    /\ Start(t, AwaitFetch(Call("get_liquidation_history_account", NoArgs),
                           "LiquidationHistory", client.pdas.liquidation_history))

get_deposit_history_account(t) ==
    /\ CanCall(t)
    /\ Start(t, AwaitFetch(Call("get_deposit_history_account", NoArgs),
                           "DepositHistory", client.pdas.deposit_history))

\* A curve-history accessor that reads the trade-history address.
get_curve_history_account_trade(t) ==
    /\ CanCall(t)
    /\ Start(t, AwaitFetch(Call("get_curve_history_account", NoArgs),
                           "CurveHistory", client.pdas.trade_history))

get_curve_history_account(t) ==
    /\ CanCall(t)
    /\ Start(t, AwaitFetch(Call("get_curve_history_account", NoArgs),
                           "CurveHistory", client.pdas.curve_history))

AccessorOps ==
    {"get_state_account", "get_markets_account",
     "get_funding_payment_history_account", "get_funding_rate_history_account",
     "get_trade_history_account", "get_liquidation_history_account",
     "get_deposit_history_account", "get_curve_history_account"}

\* The accessor after its await: `return cast(T, res)`; an exception of the
\* fetch is not caught and leaves the coroutine as it is.
accessor_return(co, r) ==
    IF r.ok THEN Finish(co, Returned(r.payload)) ELSE Finish(co, Raised(r.error))

accessor_resume(t) ==
    /\ task[t].pc = "fetch"
    /\ task[t].op \in AccessorOps
    /\ \E r \in FetchResponses(LastFetch(task[t]).kind, LastFetch(task[t]).address) :
        task' = [task EXCEPT ![t] = accessor_return(FetchAnswered(task[t], r), r)]
    /\ UNCHANGED <<program, remoteState, client, creation>>

\* ------------------------------------------------------------------------
\* Instruction builders.

None == [tag |-> "None"]

\* get_user_account_public_key(): pure derivation from the program id and
\* the provider wallet.
user_account_public_key(c) ==
    get_user_account_public_key_and_nonce(c.program.program_id,
                                          c.program.provider.wallet.public_key)[1]

get_user_account_public_key(t) ==
    /\ CanCall(t)
    /\ Start(t, Finish(Call("get_user_account_public_key", NoArgs),
                       Returned(user_account_public_key(client))))

\* program.type["InitializeUserOptionalAccounts"](whitelist_token=False) and
\* the remaining accounts: the whitelist discovery is commented out.
optional_accounts == [whitelist_token |-> FALSE]
remaining_accounts == <<>>

\* An initialize_user account map with user and authority exchanged.
initialize_user_accounts_exchanged(c, user_public_key, user_positions) ==
    [ user |-> c.program.provider.wallet.public_key,
      authority |-> user_public_key,
      rent |-> SYSVAR_RENT_PUBKEY,
      system_program |-> SYS_PROGRAM_ID,
      user_positions |-> user_positions.public_key,
      state |-> c.pdas.state ]

\* The accounts of the initialize_user instruction.
initialize_user_accounts(c, user_public_key, user_positions) ==
    [ user |-> user_public_key,
      authority |-> c.program.provider.wallet.public_key,
      rent |-> SYSVAR_RENT_PUBKEY,
      system_program |-> SYS_PROGRAM_ID,
      user_positions |-> user_positions.public_key,
      state |-> c.pdas.state ]

\* The body of get_initialize_user_instructions, which awaits nothing: the
\* coroutine's locals after it, given the keypair Keypair() came up with.
initialize_user_instructions(c, user_positions) ==
    LET derived == get_user_account_public_key_and_nonce(
                       c.program.program_id, c.program.provider.wallet.public_key)
        user_public_key == derived[1]
        user_account_nonce == derived[2]
    IN [ user_positions |-> user_positions,
         user_public_key |-> user_public_key,
         initialize_user_account_ix |->
             [ name |-> "initialize_user",
               args |-> <<user_account_nonce, optional_accounts>>,
               accounts |-> initialize_user_accounts(c, user_public_key, user_positions),
               remaining_accounts |-> remaining_accounts ] ]

get_initialize_user_instructions(t) ==
    /\ CanCall(t)
    /\ \E seed \in KeypairSeeds :
        Start(t, Finish(Call("get_initialize_user_instructions", NoArgs),
                        Returned(initialize_user_instructions(client, Keypair(seed)))))

\* The frame of get_deposit_collateral_instruction before its first await.
deposit_frame(c, amount, collateral_account_public_key, user_positions_account_public_key) ==
    [ amount |-> amount,
      collateral_account_public_key |-> collateral_account_public_key,
      user_account_public_key |-> user_account_public_key(c),
      user_positions_account_public_key |-> user_positions_account_public_key ]

\* get_deposit_collateral_instruction up to its first await.  With no
\* positions address it evaluates self.get_user_account(), a method the
\* class does not define: AttributeError, before anything is fetched.
\* Otherwise it awaits self.get_state_account().
deposit_await(co, c, frame) ==
    IF frame.user_positions_account_public_key = None
    THEN Finish(co, Raised("AttributeError"))
    ELSE _get_state_account(co, c.pdas.state)

\* The deposit_collateral instruction, built from the state just fetched.
deposit_collateral_instruction(c, frame, state) ==
    [ name |-> "deposit_collateral",
      args |-> <<frame.amount>>,
      accounts |->
        [ state |-> c.pdas.state,
          user |-> frame.user_account_public_key,
          collateral_vault |-> state.collateral_vault,
          user_collateral_account |-> frame.collateral_account_public_key,
          authority |-> c.program.provider.wallet.public_key,
          token_program |-> TOKEN_PROGRAM_ID,
          markets |-> state.markets,
          funding_payment_history |-> state.funding_payment_history,
          deposit_history |-> state.deposit_history,
          user_positions |-> frame.user_positions_account_public_key ] ]

get_deposit_collateral_instruction(t) ==
    /\ CanCall(t)
    /\ \E amount \in Amounts, a \in CollateralAccounts,
          positions \in {None} \cup {PositionsAccount(x) : x \in PositionsAccounts} :
        LET frame == deposit_frame(client, amount, TokenAccount(a), positions)
            co == [Call("get_deposit_collateral_instruction",
                        [amount |-> amount,
                         collateral_account_public_key |-> TokenAccount(a),
                         user_positions_account_public_key |-> positions])
                     EXCEPT !.locals = frame]
        IN Start(t, deposit_await(co, client, frame))

\* get_deposit_collateral_instruction after the await of the state.
deposit_return(co, c, r) ==
    IF r.ok
    THEN Finish(co, Returned(deposit_collateral_instruction(c, co.locals, r.payload)))
    ELSE Finish(co, Raised(r.error))

\* A deposit builder that also writes the fetched addresses into the bundle.
get_deposit_collateral_instruction_resume_refresh(t) ==
    /\ task[t].pc = "fetch"
    /\ task[t].op = "get_deposit_collateral_instruction"
    /\ \E r \in FetchResponses(LastFetch(task[t]).kind, LastFetch(task[t]).address) :
        /\ task' = [task EXCEPT ![t] = deposit_return(FetchAnswered(task[t], r), client, r)]
        /\ client' = IF r.ok
                     THEN [client EXCEPT !.pdas = ClearingHousePDAs(client.pdas.state, r.payload)]
                     ELSE client
    /\ UNCHANGED <<program, remoteState, creation>>

get_deposit_collateral_instruction_resume(t) ==
    /\ task[t].pc = "fetch"
    /\ task[t].op = "get_deposit_collateral_instruction"
    /\ \E r \in FetchResponses(LastFetch(task[t]).kind, LastFetch(task[t]).address) :
        task' = [task EXCEPT ![t] = deposit_return(FetchAnswered(task[t], r), client, r)]
    /\ UNCHANGED <<program, remoteState, client, creation>>

\* ------------------------------------------------------------------------
\* initialize_user_account_and_deposit_collateral

\* A transaction with the two instructions in the other order.
Transaction_add_swapped(ix1, ix2) == [instructions |-> <<ix2, ix1>>]

\* Transaction().add(ix1, ix2)
Transaction_add(ix1, ix2) == [instructions |-> <<ix1, ix2>>]

\* program.provider.send(tx, signers) is issued and awaited.
AwaitSend(co, tx, signers) ==
    [co EXCEPT !.pc = "send",
               !.sends = Append(@, [tx |-> tx, signers |-> signers, response |-> Pending])]

\* The transport answers the submission the coroutine awaits.
SendAnswered(co, r) == [co EXCEPT !.sends[Len(co.sends)].response = r]

\* A composition that hands the deposit builder the user address where the
\* positions address belongs.
initialize_and_deposit_begin_mixed(c, amount, collateral_account_public_key, keypair) ==
    LET init == initialize_user_instructions(c, keypair)
        frame == deposit_frame(c, amount, collateral_account_public_key,
                               init.user_public_key)
        co == [Call("initialize_user_account_and_deposit_collateral",
                    [amount |-> amount,
                     collateral_account_public_key |-> collateral_account_public_key])
                 EXCEPT !.locals =
                    [ user_positions_account |-> init.user_positions,
                      user_account_public_key |-> init.user_public_key,
                      initialize_user_account_ix |-> init.initialize_user_account_ix,
                      deposit |-> frame ]]
    IN deposit_await(co, c, frame)

\* The coroutine up to its first await: the initialize_user instruction is
\* built, then the deposit builder is entered with the new positions key.
initialize_and_deposit_begin(c, amount, collateral_account_public_key, keypair) ==
    LET init == initialize_user_instructions(c, keypair)
        frame == deposit_frame(c, amount, collateral_account_public_key,
                               init.user_positions.public_key)
        co == [Call("initialize_user_account_and_deposit_collateral",
                    [amount |-> amount,
                     collateral_account_public_key |-> collateral_account_public_key])
                 EXCEPT !.locals =
                    [ user_positions_account |-> init.user_positions,
                      user_account_public_key |-> init.user_public_key,
                      initialize_user_account_ix |-> init.initialize_user_account_ix,
                      deposit |-> frame ]]
    IN deposit_await(co, c, frame)

initialize_user_account_and_deposit_collateral(t) ==
    /\ CanCall(t)
    /\ \E amount \in Amounts, a \in CollateralAccounts, seed \in KeypairSeeds :
        Start(t, initialize_and_deposit_begin(client, amount, TokenAccount(a), Keypair(seed)))

\* After the state fetch: the deposit instruction is built, the transaction
\* assembled and sent with the positions keypair as the one extra signer.
initialize_and_deposit_send(co, c, r) ==
    IF r.ok
    THEN LET deposit_collateral_ix == deposit_collateral_instruction(c, co.locals.deposit, r.payload)
             tx == Transaction_add(co.locals.initialize_user_account_ix, deposit_collateral_ix)
         IN AwaitSend(co, tx, <<co.locals.user_positions_account>>)
    ELSE Finish(co, Raised(r.error))

initialize_user_account_and_deposit_collateral_resume_fetch(t) ==
    /\ task[t].pc = "fetch"
    /\ task[t].op = "initialize_user_account_and_deposit_collateral"
    /\ \E r \in FetchResponses(LastFetch(task[t]).kind, LastFetch(task[t]).address) :
        task' = [task EXCEPT ![t] =
                    initialize_and_deposit_send(FetchAnswered(task[t], r), client, r)]
    /\ UNCHANGED <<program, remoteState, client, creation>>

\* A return path that submits the transaction once more after a rejection.
initialize_and_deposit_return_retry(co, r) ==
    IF r.ok
    THEN Finish(co, Returned(<<r.signature, co.locals.user_account_public_key>>))
    ELSE IF Len(co.sends) < 2
         THEN AwaitSend(co, co.sends[1].tx, co.sends[1].signers)
         ELSE Finish(co, Raised(r.error))

\* After provider.send: `return tx_sig, user_account_public_key`; a
\* rejection is not caught.
initialize_and_deposit_return(co, r) ==
    IF r.ok
    THEN Finish(co, Returned(<<r.signature, co.locals.user_account_public_key>>))
    ELSE Finish(co, Raised(r.error))

initialize_user_account_and_deposit_collateral_resume_send(t) ==
    /\ task[t].pc = "send"
    /\ task[t].op = "initialize_user_account_and_deposit_collateral"
    /\ \E r \in SendResponses :
        task' = [task EXCEPT ![t] =
                    initialize_and_deposit_return(SendAnswered(task[t], r), r)]
    /\ UNCHANGED <<program, remoteState, client, creation>>

Init ==
    /\ program \in {[program_id |-> p,
                      provider |-> [wallet |-> [public_key |-> WalletPublicKey(w)]]] :
                        p \in ProgramIds, w \in Identities}
    /\ remoteState \in RemoteStates
    /\ client = NoClient
    /\ creation = Idle
    /\ task = [t \in Tasks |-> Idle]

Next ==
    \/ create
    \/ create_resume
    \/ RemoteStateChange
    \/ \E t \in Tasks :
        \/ get_state_account(t)
        \/ get_markets_account(t)
        \/ get_funding_payment_history_account(t)
        \/ get_funding_rate_history_account(t)
        \/ get_trade_history_account(t)
        \/ get_liquidation_history_account(t)
        \/ get_deposit_history_account(t)
        \/ get_curve_history_account(t)
        \/ accessor_resume(t)
        \/ get_user_account_public_key(t)
        \/ get_initialize_user_instructions(t)
        \/ get_deposit_collateral_instruction(t)
        \/ get_deposit_collateral_instruction_resume(t)
        \/ initialize_user_account_and_deposit_collateral(t)
        \/ initialize_user_account_and_deposit_collateral_resume_fetch(t)
        \/ initialize_user_account_and_deposit_collateral_resume_send(t)

Spec == Init /\ [][Next]_vars

\* ------------------------------------------------------------------------
\* Properties.

Done(t, op) == task[t].op = op /\ task[t].pc = "done"

Deposit == "get_deposit_collateral_instruction"
InitializeAndDeposit == "initialize_user_account_and_deposit_collateral"

Answered(entry) == entry.response # Pending
Accepted(entry) == Answered(entry) /\ entry.response.ok
Rejected(entry) == Answered(entry) /\ ~entry.response.ok

\* The user address derived from the program id and the signing identity.
DerivedUserAddress ==
    get_user_account_public_key_and_nonce(program.program_id,
                                          program.provider.wallet.public_key)[1]

\* C1: get_deposit_collateral_instruction called without a positions address
\* completes, fetching the caller's user account first and so making exactly
\* one more fetch than a call that names the positions address; both calls
\* build the same account map for the same positions address and state.
C1_OmittedPositionsOneMoreFetch ==
    \A t \in Tasks :
        (Done(t, Deposit) /\ task[t].args.user_positions_account_public_key = None) =>
            /\ task[t].result # Raised("AttributeError")
            /\ Len(task[t].fetches) >= 1
            /\ task[t].fetches[1].kind = "User"
            /\ \A u \in Tasks :
                (/\ Done(u, Deposit)
                 /\ task[u].args.user_positions_account_public_key # None
                 /\ task[u].result.status = "ok"
                 /\ task[t].result.status = "ok") =>
                    /\ Len(task[t].fetches) = Len(task[u].fetches) + 1
                    /\ (/\ task[t].result.value.accounts.user_positions =
                            task[u].result.value.accounts.user_positions
                        /\ task[t].fetches[Len(task[t].fetches)].response =
                            task[u].fetches[Len(task[u].fetches)].response) =>
                            task[t].result.value.accounts = task[u].result.value.accounts

\* C2: a call of initialize_user_account_and_deposit_collateral whose fetch
\* is served and whose submission is accepted submits exactly one
\* transaction, holding [initialize_user, deposit_collateral] in that order,
\* and returns the transport's signature with the user address that
\* get_user_account_public_key() gives for the same program and identity.
C2_OneTransactionInitializeThenDeposit ==
    \A t \in Tasks :
        (/\ Done(t, InitializeAndDeposit)
         /\ \A i \in 1..Len(task[t].fetches) : Accepted(task[t].fetches[i])
         /\ \A i \in 1..Len(task[t].sends) : Accepted(task[t].sends[i])) =>
            /\ task[t].result.status = "ok"
            /\ Len(task[t].sends) = 1
            /\ Len(task[t].sends[1].tx.instructions) = 2
            /\ task[t].sends[1].tx.instructions[1].name = "initialize_user"
            /\ task[t].sends[1].tx.instructions[2].name = "deposit_collateral"
            /\ task[t].result.value[1] = task[t].sends[1].response.signature
            /\ task[t].result.value[2] = DerivedUserAddress
            /\ \A u \in Tasks :
                Done(u, "get_user_account_public_key") =>
                    task[u].result = Returned(task[t].result.value[2])

C2_Witness ==
    \E t, u \in Tasks :
        /\ Done(t, InitializeAndDeposit)
        /\ task[t].result.status = "ok"
        /\ Done(u, "get_user_account_public_key")

\* The seven addresses create() learns from the State account.
DependentFields ==
    {"markets", "trade_history", "deposit_history", "funding_payment_history",
     "funding_rate_history", "liquidation_history", "curve_history"}

\* C3: the client's bundle holds, field for field, the seven addresses of
\* the State account that create() fetched, and that one fetch went to the
\* state address derived from the program id, which is the bundle's state.
C3_BundleEqualsFetchedState ==
    client.exists =>
        /\ creation.pc = "done"
        /\ Len(creation.fetches) = 1
        /\ creation.fetches[1].kind = "State"
        /\ creation.fetches[1].address =
               get_clearing_house_state_account_public_key_and_nonce(program.program_id)[1]
        /\ client.pdas.state = creation.fetches[1].address
        /\ Accepted(creation.fetches[1])
        /\ \A f \in DependentFields :
               client.pdas[f] = creation.fetches[1].response.payload[f]
        /\ \A f, g \in DependentFields : f # g => client.pdas[f] # client.pdas[g]

C3_Witness ==
    /\ client.exists
    /\ creation.result.status = "ok"
    /\ client.pdas.trade_history = Sentinel("trade_history", 2)

\* The account kind and the bundle field of each read accessor.
AccessorKind ==
    [ get_state_account |-> "State",
      get_markets_account |-> "Markets",
      get_funding_payment_history_account |-> "FundingPaymentHistory",
      get_funding_rate_history_account |-> "FundingRateHistory",
      get_trade_history_account |-> "TradeHistory",
      get_liquidation_history_account |-> "LiquidationHistory",
      get_deposit_history_account |-> "DepositHistory",
      get_curve_history_account |-> "CurveHistory" ]

AccessorField ==
    [ get_state_account |-> "state",
      get_markets_account |-> "markets",
      get_funding_payment_history_account |-> "funding_payment_history",
      get_funding_rate_history_account |-> "funding_rate_history",
      get_trade_history_account |-> "trade_history",
      get_liquidation_history_account |-> "liquidation_history",
      get_deposit_history_account |-> "deposit_history",
      get_curve_history_account |-> "curve_history" ]

\* C4: a read accessor makes exactly one fetch, of its own account kind at
\* the bundle's address for that kind, and nothing else; it returns the
\* transport's payload as it is, or raises the transport's error as it is.
C4_AccessorOneFetchPassThrough ==
    \A t \in Tasks :
        task[t].op \in AccessorOps =>
            /\ task[t].pc \in {"fetch", "done"}
            /\ Len(task[t].fetches) = 1
            /\ Len(task[t].sends) = 0
            /\ task[t].fetches[1].kind = AccessorKind[task[t].op]
            /\ task[t].fetches[1].address = client.pdas[AccessorField[task[t].op]]
            /\ (task[t].pc = "fetch") = ~Answered(task[t].fetches[1])
            /\ Accepted(task[t].fetches[1]) =>
                   task[t].result = Returned(task[t].fetches[1].response.payload)
            /\ Rejected(task[t].fetches[1]) =>
                   task[t].result = Raised(task[t].fetches[1].response.error)

C4_Witness ==
    \E t, u \in Tasks :
        /\ Done(t, "get_curve_history_account")
        /\ task[t].result.status = "ok"
        /\ Done(u, "get_trade_history_account")
        /\ task[u].result = Raised("AccountDoesNotExistError")

\* The addresses the deposit instruction takes from the State account.
FreshFields == {"collateral_vault", "markets", "funding_payment_history", "deposit_history"}

\* What a finished deposit builder must have done with the state it fetched.
BuiltFromFreshState(co) ==
    /\ Len(co.fetches) >= 1
    /\ Cardinality({i \in 1..Len(co.fetches) : co.fetches[i].kind = "State"}) = 1
    /\ LastFetch(co).kind = "State"
    /\ LastFetch(co).address = client.pdas.state
    /\ co.result.status = "ok" =>
        /\ Accepted(LastFetch(co))
        /\ \A f \in FreshFields :
               co.result.value.accounts[f] = LastFetch(co).response.payload[f]
        /\ co.result.value.accounts.state = client.pdas.state

\* C5: every call of get_deposit_collateral_instruction fetches the State
\* account once at call time and builds the instruction's collateral vault,
\* markets, funding-payment-history and deposit-history addresses from that
\* fetch, and its state address from the bundle.
C5_AlwaysFetchesStateFresh ==
    \A t \in Tasks : Done(t, Deposit) => BuiltFromFreshState(task[t])

\* The same for the calls that name the positions address, which is what
\* the code does: fresh state addresses even when the bundle is stale.
DepositWithPositionsUsesFreshState ==
    \A t \in Tasks :
        (Done(t, Deposit) /\ task[t].args.user_positions_account_public_key # None) =>
            BuiltFromFreshState(task[t])

DepositWithStaleBundle ==
    \E t \in Tasks :
        /\ Done(t, Deposit)
        /\ task[t].result.status = "ok"
        /\ task[t].result.value.accounts.markets # client.pdas.markets

\* C6: once the client is constructed, no step of any call, finished or in
\* flight, succeeding or failing, changes its bundle or its program handle.
C6_ClientNeverMutated ==
    [][client.exists => client' = client]_vars

C6_Witness ==
    \E t, u \in Tasks :
        /\ t # u
        /\ Done(t, InitializeAndDeposit)
        /\ task[t].result.status = "error"
        /\ task[u].op = Deposit
        /\ task[u].pc = "fetch"
        /\ client.exists
        /\ remoteState.status = "present"
        /\ remoteState.account.markets # client.pdas.markets

\* C7: when the transport rejects the submitted transaction, the call ends
\* raising the transport's error as it is, returns nothing, and has made
\* exactly one submission.
C7_RejectionRaisedNoRetry ==
    \A t \in Tasks :
        (task[t].op = InitializeAndDeposit /\ Len(task[t].sends) >= 1
            /\ Rejected(task[t].sends[1])) =>
            /\ task[t].pc = "done"
            /\ Len(task[t].sends) = 1
            /\ task[t].result = Raised(task[t].sends[1].response.error)

C7_Witness ==
    \E t \in Tasks :
        /\ Done(t, InitializeAndDeposit)
        /\ Len(task[t].sends) = 1
        /\ task[t].result = Raised("InsufficientFunds")

\* C8: a create() whose fetch of the State account fails ends raising the
\* fetch's error after that one fetch, and leaves no client behind.
C8_CreateFailsOnFetchError ==
    (Len(creation.fetches) >= 1 /\ Rejected(creation.fetches[1])) =>
        /\ creation.pc = "done"
        /\ Len(creation.fetches) = 1
        /\ creation.result = Raised(creation.fetches[1].response.error)
        /\ client = NoClient

C8_Witness ==
    /\ creation.pc = "done"
    /\ creation.result = Raised("AccountDidNotDeserializeError")
    /\ client = NoClient

\* C9: get_initialize_user_instructions fetches and submits nothing; its
\* instruction names exactly the derived user address, the signing identity
\* as authority, the rent sysvar, the system program, the returned keypair's
\* public key and the cached state address; whitelist_token is false, no
\* remaining accounts; the returned user address is the instruction's user.
C9_InitializeUserLocalAndExact ==
    \A t \in Tasks :
        task[t].op = "get_initialize_user_instructions" =>
            /\ task[t].pc = "done"
            /\ Len(task[t].fetches) = 0
            /\ Len(task[t].sends) = 0
            /\ task[t].result.status = "ok"
            /\ LET v == task[t].result.value
                   ix == v.initialize_user_account_ix
               IN /\ ix.name = "initialize_user"
                  /\ ix.accounts =
                        [ user |-> DerivedUserAddress,
                          authority |-> program.provider.wallet.public_key,
                          rent |-> SYSVAR_RENT_PUBKEY,
                          system_program |-> SYS_PROGRAM_ID,
                          user_positions |-> v.user_positions.public_key,
                          state |-> client.pdas.state ]
                  /\ ix.args[2].whitelist_token = FALSE
                  /\ ix.remaining_accounts = <<>>
                  /\ v.user_public_key = ix.accounts.user

C9_Witness ==
    \E t \in Tasks :
        /\ Done(t, "get_initialize_user_instructions")
        /\ task[t].result.value.user_positions = Keypair(2)

\* C10: within one call of initialize_user_account_and_deposit_collateral
\* the only fetch is the one of the State account, answered before anything
\* is submitted; both instructions name the public key of the one keypair
\* that signs, and both name the same user address.
C10_OneKeypairOneStateFetch ==
    \A t \in Tasks :
        task[t].op = InitializeAndDeposit =>
            /\ Len(task[t].fetches) = 1
            /\ task[t].fetches[1].kind = "State"
            /\ Len(task[t].sends) >= 1 =>
                /\ Accepted(task[t].fetches[1])
                /\ LET sent == task[t].sends[1]
                       ix1 == sent.tx.instructions[1]
                       ix2 == sent.tx.instructions[2]
                   IN /\ Len(sent.signers) = 1
                      /\ ix1.accounts.user_positions = sent.signers[1].public_key
                      /\ ix2.accounts.user_positions = sent.signers[1].public_key
                      /\ ix1.accounts.user = ix2.accounts.user

C10_Witness ==
    \E t, u \in Tasks :
        /\ t # u
        /\ task[t].op = InitializeAndDeposit
        /\ task[t].pc = "send"
        /\ Done(u, InitializeAndDeposit)
        /\ task[u].result.status = "ok"
        /\ task[u].sends[1].signers # task[t].sends[1].signers
====
